---- MODULE Spec2Model ----
(***************************************************************************)
(* NASCQUIZ (src/nascar_quiz-SABA51.py): the quiz engine of the Streamlit  *)
(* script.  The state is st.session_state plus the questions file and the  *)
(* st.cache_data memo of load_questions_from_json.  Each action is one     *)
(* engine operation as the script performs it; initialize_questions runs   *)
(* at the top of every script run, so the other operations act only once   *)
(* questions_loaded is set.                                                *)
(***************************************************************************)
EXTENDS Integers, Sequences, FiniteSets, TLC

VARIABLES
    source,              \* content of questions.json on disk
    cache,               \* st.cache_data memo: <<>> or <<returned list>>
    questions_loaded,    \* st.session_state.questions_loaded
    all_questions,       \* st.session_state.all_questions
    quiz_started,        \* st.session_state.quiz_started
    current_question,    \* st.session_state.current_question
    score,               \* st.session_state.score
    answers,             \* st.session_state.answers
    quiz_questions,      \* st.session_state.quiz_questions
    selected_difficulty, \* st.session_state.selected_difficulty
    selected_category,   \* st.session_state.selected_category
    last                 \* what the last operation was and how it ended

vars == <<source, cache, questions_loaded, all_questions, quiz_started,
          current_question, score, answers, quiz_questions,
          selected_difficulty, selected_category, last>>

session == <<quiz_started, current_question, score, answers, quiz_questions,
             selected_difficulty, selected_category>>

----------------------------------------------------------------------------
(* Bounds and program constants *)

\* the second index offered to submit_answer besides 0
MaxSel == 2

\* min(5, len(available_questions)) and the "fewer than 5" warning
QuizSize == 5

Min(a, b) == IF a <= b THEN a ELSE b

----------------------------------------------------------------------------
(* Python helpers *)

\* dict.get(key, default)
get(d, key, default) == IF key \in DOMAIN d THEN d[key] ELSE default

\* str.lower() on the labels that occur in the banks and the filters
lower(s) ==
    CASE s = "Easy" -> "easy"
      [] s = "Hard" -> "hard"
      [] s = "Medium" -> "medium"
      [] s = "History" -> "history"
      [] s = "Drivers" -> "drivers"
      [] s = "Tracks" -> "tracks"
      [] s = "Unknown" -> "unknown"
      [] OTHER -> s

----------------------------------------------------------------------------
(* Question banks the file can hold *)

E1 == [question |-> "Q1", options |-> <<"a", "b">>, correct |-> 0,
       explanation |-> "X1", difficulty |-> "easy", category |-> "History"]
E2 == [question |-> "Q2", options |-> <<"a", "b">>, correct |-> 1,
       explanation |-> "X2", difficulty |-> "Easy", category |-> "history"]
E3 == [question |-> "Q3", options |-> <<"a", "b", "c">>, correct |-> 2,
       explanation |-> "X3", difficulty |-> "easy", category |-> "Drivers"]
H1 == [question |-> "Q4", options |-> <<"a", "b">>, correct |-> 0,
       explanation |-> "X4", difficulty |-> "hard", category |-> "Drivers"]
H2 == [question |-> "Q5", options |-> <<"a", "b">>, correct |-> 1,
       explanation |-> "X5", difficulty |-> "Hard"]
M1 == [question |-> "Q6", options |-> <<"a", "b", "c">>, correct |-> 2,
       explanation |-> "X6", difficulty |-> "Medium", category |-> "Tracks"]
N1 == [question |-> "Q7", options |-> <<"a", "b">>, correct |-> 0,
       explanation |-> "X7"]
U1 == [question |-> "Q8", options |-> <<"a", "b">>, correct |-> 1,
       explanation |-> "X8", difficulty |-> "expert", category |-> ""]

\* three easy and two hard entries (E1 and H1 are listed twice)
BankExample == <<E1, H1, E2, H1, E1>>
\* six entries: two questions, each listed three times
BankSix == <<M1, N1, M1, N1, M1, N1>>
\* four different entries: unrecognized and absent difficulty, empty and
\* absent category
BankOdd == <<U1, N1, E3, H2>>

Sources ==
    { [kind |-> "missing"],
      [kind |-> "invalid"],
      [kind |-> "json", data |-> [title |-> "quiz"]],
      [kind |-> "json", data |-> [questions |-> <<>>]],
      [kind |-> "json", data |-> [questions |-> BankExample]],
      [kind |-> "json", data |-> [questions |-> BankSix]],
      [kind |-> "json", data |-> [questions |-> BankOdd]] }

\* arguments the callers pass to start_quiz and submit_answer
Difficulties == {"mixed", "easy", "medium", "hard"}
Categories == {"all", "History", "Drivers", "Tracks", "Unknown"}
Selections == {0, MaxSel}

----------------------------------------------------------------------------
(* Question Store *)

\* the body of load_questions_from_json: what a read of the file returns
read_file(src) ==
    IF src.kind = "missing" THEN <<>>
    ELSE IF src.kind = "invalid" THEN <<>>
    ELSE get(src.data, "questions", <<>>)

\* @st.cache_data: the body runs on the first call only
load_questions_from_json ==
    IF cache # <<>> THEN cache[1] ELSE read_file(source)

\* a load that also empties the answer log
Loaded_clears_answers(op) ==
    LET loaded == load_questions_from_json IN
    /\ all_questions' = loaded
    /\ cache' = <<loaded>>
    /\ questions_loaded' = TRUE
    /\ answers' = <<>>
    /\ last' = [op |-> op,
                outcome |-> IF loaded = <<>> THEN "no_questions_loaded" ELSE "ok",
                prior |-> Len(answers)]
    /\ UNCHANGED <<source, quiz_started, current_question, score,
                   quiz_questions, selected_difficulty, selected_category>>

\* the body of initialize_questions when the flag is clear
Loaded(op) ==
    LET loaded == load_questions_from_json IN
    /\ all_questions' = loaded
    /\ cache' = <<loaded>>
    /\ questions_loaded' = TRUE
    /\ last' = [op |-> op,
                outcome |-> IF loaded = <<>> THEN "no_questions_loaded" ELSE "ok",
                prior |-> Len(answers)]
    /\ UNCHANGED <<source, session>>

initialize_questions ==
    /\ ~questions_loaded
    /\ Loaded("initialize_questions")

\* the Reload Questions button: clears the flag, the rerun loads again
reload_questions ==
    /\ questions_loaded
    /\ all_questions # <<>>
    /\ Loaded("reload_questions")

----------------------------------------------------------------------------
(* Filter Engine *)

filter_questions_by_difficulty(questions, difficulty_level) ==
    IF difficulty_level = "mixed" THEN questions
    ELSE LET Test(q) == lower(get(q, "difficulty", "")) = lower(difficulty_level)
         IN SelectSeq(questions, Test)

filter_questions_by_category(questions, category) ==
    IF category = "all" THEN questions
    ELSE LET Test(q) == lower(get(q, "category", "")) = lower(category)
         IN SelectSeq(questions, Test)

\* a count that compares the labels as they are written
get_filtered_question_count_exact(difficulty, category) ==
    LET byCat(q) == get(q, "category", "") = category
        byDiff(q) == get(q, "difficulty", "") = difficulty
        q1 == IF category # "all" THEN SelectSeq(all_questions, byCat)
              ELSE all_questions
        q2 == IF difficulty # "mixed" THEN SelectSeq(q1, byDiff) ELSE q1
    IN Len(q2)

get_filtered_question_count(difficulty, category) ==
    LET byCat(q) == lower(get(q, "category", "")) = lower(category)
        byDiff(q) == lower(get(q, "difficulty", "")) = lower(difficulty)
        q1 == IF category # "all" THEN SelectSeq(all_questions, byCat)
              ELSE all_questions
        q2 == IF difficulty # "mixed" THEN SelectSeq(q1, byDiff) ELSE q1
    IN Len(q2)

\* the labels in the list get_available_categories returns (sorted() only
\* orders them): the category of every question, "Unknown" where it has none,
\* empty labels left out
get_available_categories ==
    IF all_questions = <<>> THEN {}
    ELSE { get(all_questions[i], "category", "Unknown") :
               i \in { j \in 1..Len(all_questions) :
                          get(all_questions[j], "category", "Unknown") # "" } }

\* the loop of get_category_stats over the first n questions: label |-> count
RECURSIVE get_category_stats_loop(_)
get_category_stats_loop(n) ==
    IF n = 0 THEN [category \in {} |-> 0]
    ELSE LET stats == get_category_stats_loop(n - 1)
             category == get(all_questions[n], "category", "Unknown")
         IN [k \in DOMAIN stats \cup {category} |->
                IF k = category THEN get(stats, category, 0) + 1 ELSE stats[k]]

get_category_stats == get_category_stats_loop(Len(all_questions))

----------------------------------------------------------------------------
(* random.sample *)

RECURSIVE Arrangements(_, _)
\* the sequences of k pairwise different elements of S
Arrangements(S, k) ==
    IF k = 0 THEN {<<>>}
    ELSE UNION { { <<x>> \o p : p \in Arrangements(S \ {x}, k - 1) } : x \in S }

\* random.sample(population, k): k entries at pairwise different positions,
\* in any order
random_sample(population, k) ==
    { [i \in 1..k |-> population[p[i]]] :
          p \in Arrangements(1..Len(population), k) }

Banks == { read_file(src) : src \in Sources }

\* the lists start_quiz can sample from, and the sample sizes
Populations ==
    { filter_questions_by_difficulty(filter_questions_by_category(b, c), d) :
          b \in Banks, d \in Difficulties, c \in Categories }

\* random_sample, tabulated once over the populations
SampleTable ==
    [pop \in Populations |-> [k \in 0..Len(pop) |-> random_sample(pop, k)]]

sample(population, k) == SampleTable[population][k]

----------------------------------------------------------------------------
(* Session Engine *)

\* the record of an operation: its name, how it ended, and the length the
\* answer log had when it was called
done(op, outcome) == [op |-> op, outcome |-> outcome, prior |-> Len(answers)]

StartErrors == {"error_no_questions", "error_no_match"}
StartSuccesses == {"started", "started_with_warning"}

\* num_questions without the cap
num_questions_uncapped(available_questions) == Len(available_questions)

\* num_questions = min(5, len(available_questions))
num_questions(available_questions) == Min(QuizSize, Len(available_questions))

\* new_session without the score reset
new_session_keeps_score(difficulty_level, category) ==
    /\ quiz_started' = TRUE
    /\ current_question' = 0
    /\ score' = score
    /\ answers' = <<>>
    /\ selected_difficulty' = difficulty_level
    /\ selected_category' = category

\* new_session without the answer log reset
new_session_keeps_answers(difficulty_level, category) ==
    /\ quiz_started' = TRUE
    /\ current_question' = 0
    /\ score' = 0
    /\ answers' = answers
    /\ selected_difficulty' = difficulty_level
    /\ selected_category' = category

\* the assignments of a start that passed both checks, before the draw
new_session(difficulty_level, category) ==
    /\ quiz_started' = TRUE
    /\ current_question' = 0
    /\ score' = 0
    /\ answers' = <<>>
    /\ selected_difficulty' = difficulty_level
    /\ selected_category' = category

\* a start that treats fewer than five matching questions as an error
start_quiz_needs_five(difficulty_level, category) ==
    /\ questions_loaded
    /\ LET available_questions ==
               filter_questions_by_difficulty(
                   filter_questions_by_category(all_questions, category),
                   difficulty_level)
       IN IF all_questions = <<>>
          THEN /\ last' = done("start_quiz", "error_no_questions")
               /\ UNCHANGED <<source, cache, questions_loaded, all_questions, session>>
          ELSE IF Len(available_questions) < QuizSize
          THEN /\ last' = done("start_quiz", "error_no_match")
               /\ UNCHANGED <<source, cache, questions_loaded, all_questions, session>>
          ELSE /\ new_session(difficulty_level, category)
               /\ quiz_questions' \in sample(available_questions,
                                             num_questions(available_questions))
               /\ last' = done("start_quiz", "started")
               /\ UNCHANGED <<source, cache, questions_loaded, all_questions>>

\* a start that clears the session before it checks the bank
start_quiz_resets_first(difficulty_level, category) ==
    /\ questions_loaded
    /\ LET available_questions ==
               filter_questions_by_difficulty(
                   filter_questions_by_category(all_questions, category),
                   difficulty_level)
       IN IF all_questions = <<>> \/ available_questions = <<>>
          THEN /\ last' = done("start_quiz",
                               IF all_questions = <<>> THEN "error_no_questions"
                               ELSE "error_no_match")
               /\ quiz_started' = FALSE
               /\ current_question' = 0
               /\ score' = 0
               /\ answers' = <<>>
               /\ UNCHANGED <<source, cache, questions_loaded, all_questions,
                              quiz_questions, selected_difficulty, selected_category>>
          ELSE /\ new_session(difficulty_level, category)
               /\ quiz_questions' \in sample(available_questions,
                                             num_questions(available_questions))
               /\ last' = done("start_quiz",
                               IF Len(available_questions) < QuizSize
                               THEN "started_with_warning" ELSE "started")
               /\ UNCHANGED <<source, cache, questions_loaded, all_questions>>

\* a start without the check at line 166: no matching question starts an
\* empty quiz
start_quiz_allows_empty(difficulty_level, category) ==
    /\ questions_loaded
    /\ IF all_questions = <<>>
       THEN /\ last' = done("start_quiz", "error_no_questions")
            /\ UNCHANGED <<source, cache, questions_loaded, all_questions, session>>
       ELSE LET available_questions ==
                    filter_questions_by_difficulty(
                        filter_questions_by_category(all_questions, category),
                        difficulty_level)
            IN /\ new_session(difficulty_level, category)
               /\ IF available_questions = <<>>
                  THEN quiz_questions' = <<>>
                  ELSE quiz_questions' \in sample(available_questions,
                                                  num_questions(available_questions))
               /\ last' = done("start_quiz",
                               IF Len(available_questions) < QuizSize
                               THEN "started_with_warning" ELSE "started")
               /\ UNCHANGED <<source, cache, questions_loaded, all_questions>>

start_quiz(difficulty_level, category) ==
    /\ questions_loaded
    /\ IF all_questions = <<>>
       THEN /\ last' = done("start_quiz", "error_no_questions")
            /\ UNCHANGED <<source, cache, questions_loaded, all_questions, session>>
       ELSE
       LET available_questions ==
               filter_questions_by_difficulty(
                   filter_questions_by_category(all_questions, category),
                   difficulty_level)
       IN IF available_questions = <<>>
          THEN /\ last' = done("start_quiz", "error_no_match")
               /\ UNCHANGED <<source, cache, questions_loaded, all_questions, session>>
          ELSE /\ new_session(difficulty_level, category)
               /\ quiz_questions' \in sample(available_questions,
                                             num_questions(available_questions))
               /\ last' = done("start_quiz",
                               IF Len(available_questions) < QuizSize
                               THEN "started_with_warning" ELSE "started")
               /\ UNCHANGED <<source, cache, questions_loaded, all_questions>>

\* an answer_record that compares the choice with a 1-based correct index
answer_record_one_based(current_q, selected_option) ==
    [question    |-> current_q["question"],
     selected    |-> selected_option,
     correct     |-> current_q["correct"],
     is_correct  |-> (selected_option = current_q["correct"] + 1),
     explanation |-> current_q["explanation"],
     difficulty  |-> get(current_q, "difficulty", "medium"),
     category    |-> get(current_q, "category", "Unknown")]

\* the dict submit_answer appends
answer_record(current_q, selected_option) ==
    [question |-> current_q["question"],
     selected |-> selected_option,
     correct |-> current_q["correct"],
     is_correct |-> selected_option = current_q["correct"],
     explanation |-> current_q["explanation"],
     difficulty |-> get(current_q, "difficulty", "medium"),
     category |-> get(current_q, "category", "Unknown")]

\* accept_answer that moves the position on by two
accept_answer_advances_two(current_q, selected_option) ==
    /\ score' = IF selected_option = current_q["correct"] THEN score + 1 ELSE score
    /\ answers' = Append(answers, answer_record(current_q, selected_option))
    /\ current_question' = current_question + 2
    /\ last' = done("submit_answer", "ok")
    /\ UNCHANGED <<source, cache, questions_loaded, all_questions,
                   quiz_started, quiz_questions,
                   selected_difficulty, selected_category>>

\* the effect of submit_answer on the question at the current position
accept_answer(current_q, selected_option) ==
    /\ score' = IF selected_option = current_q["correct"] THEN score + 1 ELSE score
    /\ answers' = Append(answers, answer_record(current_q, selected_option))
    /\ current_question' = current_question + 1
    /\ last' = done("submit_answer", "ok")
    /\ UNCHANGED <<source, cache, questions_loaded, all_questions,
                   quiz_started, quiz_questions,
                   selected_difficulty, selected_category>>

\* a submit_answer that answers the last question again once the quiz is over
submit_answer_repeats_last(selected_option) ==
    /\ questions_loaded
    /\ IF quiz_questions = <<>>
       THEN /\ last' = done("submit_answer", "IndexError")
            /\ UNCHANGED <<source, cache, questions_loaded, all_questions, session>>
       ELSE accept_answer(
                quiz_questions[Min(current_question + 1, Len(quiz_questions))],
                selected_option)

\* a submit_answer that rejects an index outside the options
submit_answer_checks_range(selected_option) ==
    /\ questions_loaded
    /\ IF current_question >= Len(quiz_questions)
       THEN /\ last' = done("submit_answer", "IndexError")
            /\ UNCHANGED <<source, cache, questions_loaded, all_questions, session>>
       ELSE IF selected_option \notin
                   0..(Len(quiz_questions[current_question + 1]["options"]) - 1)
       THEN /\ last' = done("submit_answer", "InvalidChoice")
            /\ UNCHANGED <<source, cache, questions_loaded, all_questions, session>>
       ELSE accept_answer(quiz_questions[current_question + 1], selected_option)

submit_answer(selected_option) ==
    /\ questions_loaded
    /\ IF current_question >= Len(quiz_questions)
       THEN \* quiz_questions[current_question] raises IndexError
            /\ last' = done("submit_answer", "IndexError")
            /\ UNCHANGED <<source, cache, questions_loaded, all_questions, session>>
       ELSE accept_answer(quiz_questions[current_question + 1], selected_option)

\* reset_quiz without answers = []
reset_quiz_keeps_answers ==
    /\ questions_loaded
    /\ quiz_started' = FALSE
    /\ current_question' = 0
    /\ score' = 0
    /\ quiz_questions' = <<>>
    /\ last' = done("reset_quiz", "ok")
    /\ UNCHANGED <<source, cache, questions_loaded, all_questions, answers,
                   selected_difficulty, selected_category>>

\* reset_quiz without quiz_questions = []
reset_quiz_keeps_questions ==
    /\ questions_loaded
    /\ quiz_started' = FALSE
    /\ current_question' = 0
    /\ score' = 0
    /\ answers' = <<>>
    /\ last' = done("reset_quiz", "ok")
    /\ UNCHANGED <<source, cache, questions_loaded, all_questions, quiz_questions,
                   selected_difficulty, selected_category>>

\* reset_quiz that also puts both selected filters back to their defaults
reset_quiz_clears_filters ==
    /\ questions_loaded
    /\ quiz_started' = FALSE
    /\ current_question' = 0
    /\ score' = 0
    /\ answers' = <<>>
    /\ quiz_questions' = <<>>
    /\ selected_difficulty' = "mixed"
    /\ selected_category' = "all"
    /\ last' = done("reset_quiz", "ok")
    /\ UNCHANGED <<source, cache, questions_loaded, all_questions>>

reset_quiz ==
    /\ questions_loaded
    /\ quiz_started' = FALSE
    /\ current_question' = 0
    /\ score' = 0
    /\ answers' = <<>>
    /\ quiz_questions' = <<>>
    /\ last' = done("reset_quiz", "ok")
    /\ UNCHANGED <<source, cache, questions_loaded, all_questions,
                   selected_difficulty, selected_category>>

-----------------------------------------------------------------------------
(* Page *)

\* the branch of the page the script renders (lines 264, 349 and the else at 432)
page ==
    IF ~quiz_started THEN "welcome"
    ELSE IF current_question < Len(quiz_questions) THEN "question"
    ELSE "results"

\* true when the detailed results (lines 523-541) index an option that the
\* question does not have
SelectedOutOfRange ==
    \E i \in 1..Len(answers) :
        answers[i].selected >= Len(quiz_questions[i]["options"])

\* how one run of the script ends when no widget was used: the page it
\* renders, or the exception it raises.  total_questions is bound at line 261
\* only when the bank is not empty, and read at line 280 on the welcome page.
script_outcome ==
    IF page = "welcome"
    THEN IF all_questions = <<>> THEN "NameError" ELSE "welcome"
    ELSE IF page = "question" THEN "question"
    ELSE IF Len(quiz_questions) = 0 THEN "ZeroDivisionError"
    ELSE IF SelectedOutOfRange THEN "IndexError"
    ELSE "results"

\* a rerun of the script in the same browser session, after the first run
script_run ==
    /\ questions_loaded
    /\ last' = done("script_run", script_outcome)
    /\ UNCHANGED <<source, cache, questions_loaded, all_questions, session>>

----------------------------------------------------------------------------
(* Results *)

\* difficulty_weights.get(difficulty, 2) without the lower-casing of line 147
difficulty_weights_exact(difficulty) ==
    CASE difficulty = "easy" -> 1
      [] difficulty = "medium" -> 2
      [] difficulty = "hard" -> 3
      [] OTHER -> 2

\* difficulty_weights.get(difficulty, 2) on the lower-cased difficulty
difficulty_weights(difficulty) ==
    CASE lower(difficulty) = "easy" -> 1
      [] lower(difficulty) = "medium" -> 2
      [] lower(difficulty) = "hard" -> 3
      [] OTHER -> 2

\* the loop of calculate_difficulty_score over the first n answers:
\* <<total_weighted_score, max_possible_score>>
RECURSIVE calculate_difficulty_score_loop(_, _)
calculate_difficulty_score_loop(answer_log, n) ==
    IF n = 0 THEN <<0, 0>>
    ELSE LET sofar == calculate_difficulty_score_loop(answer_log, n - 1)
             question == quiz_questions[n]
             weight == difficulty_weights(get(question, "difficulty", "medium"))
         IN <<sofar[1] + (IF answer_log[n].is_correct THEN weight ELSE 0),
              sofar[2] + weight>>

calculate_difficulty_score(answer_log) ==
    calculate_difficulty_score_loop(answer_log, Len(answer_log))

\* a pass that counts every answer as correct
counted_every_answer(entry, answer) ==
    <<entry[1] + 1, entry[2] + 1>>

\* one pass of a breakdown loop: the entry of key after one more answer
counted(entry, answer) ==
    <<entry[1] + (IF answer.is_correct THEN 1 ELSE 0), entry[2] + 1>>

\* the category loop of the results page over the first n answers:
\* category |-> <<correct, total>>
RECURSIVE category_breakdown_loop(_, _)
category_breakdown_loop(answer_log, n) ==
    IF n = 0 THEN [cat \in {} |-> <<0, 0>>]
    ELSE LET sofar == category_breakdown_loop(answer_log, n - 1)
             cat == get(answer_log[n], "category", "Unknown")
             entry == IF cat \in DOMAIN sofar THEN sofar[cat] ELSE <<0, 0>>
         IN [k \in DOMAIN sofar \cup {cat} |->
                IF k = cat THEN counted(entry, answer_log[n]) ELSE sofar[k]]

category_breakdown == category_breakdown_loop(answers, Len(answers))

\* a difficulty loop that compares the recorded difficulty as it is written
RECURSIVE difficulty_breakdown_exact(_, _)
difficulty_breakdown_exact(answer_log, n) ==
    IF n = 0 THEN [k \in {"easy", "medium", "hard"} |-> <<0, 0>>]
    ELSE LET sofar == difficulty_breakdown_exact(answer_log, n - 1)
             diff == get(answer_log[n], "difficulty", "medium")
         IN IF diff \in DOMAIN sofar
            THEN [sofar EXCEPT ![diff] = counted(sofar[diff], answer_log[n])]
            ELSE sofar

\* the difficulty loop of the results page over the first n answers:
\* difficulty |-> <<correct, total>>
RECURSIVE difficulty_breakdown_loop(_, _)
difficulty_breakdown_loop(answer_log, n) ==
    IF n = 0 THEN [k \in {"easy", "medium", "hard"} |-> <<0, 0>>]
    ELSE LET sofar == difficulty_breakdown_loop(answer_log, n - 1)
             diff == lower(get(answer_log[n], "difficulty", "medium"))
         IN IF diff \in DOMAIN sofar
            THEN [sofar EXCEPT ![diff] = counted(sofar[diff], answer_log[n])]
            ELSE sofar

difficulty_breakdown == difficulty_breakdown_loop(answers, Len(answers))

----------------------------------------------------------------------------
(* Specification *)

Init ==
    /\ source \in Sources
    /\ cache = <<>>
    /\ questions_loaded = FALSE
    /\ all_questions = <<>>
    /\ quiz_started = FALSE
    /\ current_question = 0
    /\ score = 0
    /\ answers = <<>>
    /\ quiz_questions = <<>>
    /\ selected_difficulty = "mixed"
    /\ selected_category = "all"
    /\ last = [op |-> "init", outcome |-> "ok", prior |-> 0]

Start == \E d \in Difficulties, c \in Categories : start_quiz(d, c)

Answer == \E s \in Selections : submit_answer(s)

Next ==
    \/ initialize_questions
    \/ reload_questions
    \/ Start
    \/ Answer
    \/ reset_quiz

Spec == Init /\ [][Next]_vars

\* one session at a time: no reset, and a start only while no quiz is started;
\* the user keeps answering
SessionNext ==
    \/ initialize_questions
    \/ reload_questions
    \/ (~quiz_started /\ Start)
    \/ Answer

FairSpec == Init /\ [][SessionNext]_vars /\ WF_vars(Answer)

\* the files questions.json is replaced with while the script is in use
FileSources ==
    { [kind |-> "missing"],
      [kind |-> "invalid"],
      [kind |-> "json", data |-> [title |-> "quiz"]],
      [kind |-> "json", data |-> [questions |-> BankOdd]] }

\* questions.json is written, deleted or damaged outside the script
replace_file ==
    /\ source' \in FileSources \ {source}
    /\ UNCHANGED <<cache, questions_loaded, all_questions, session, last>>

AppInit == Init /\ source \in FileSources

\* the script with reruns and a file that changes under it
AppNext ==
    \/ Next
    \/ script_run
    \/ replace_file

AppSpec == AppInit /\ [][AppNext]_vars


----------------------------------------------------------------------------
(* Properties *)

Range(seq) == { seq[i] : i \in 1..Len(seq) }

\* how often x is listed in seq
Occurrences(seq, x) == Cardinality({ i \in 1..Len(seq) : seq[i] = x })

\* q passes the category filter c and the difficulty filter d
Matches(q, d, c) ==
    /\ c = "all" \/ lower(get(q, "category", "")) = lower(c)
    /\ d = "mixed" \/ lower(get(q, "difficulty", "")) = lower(d)

CountMatching(bank, d, c) == Cardinality({ i \in 1..Len(bank) : Matches(bank[i], d, c) })

\* this step is a call start_quiz(d, c)
StartStep(d, c) ==
    /\ last'.op = "start_quiz"
    /\ last'.outcome \in StartErrors
       \/ (selected_difficulty' = d /\ selected_category' = c)
    /\ start_quiz(d, c)

\* this step is a call submit_answer(s)
SubmitStep(s) ==
    /\ last'.op = "submit_answer"
    /\ submit_answer(s)

OutOfRange(s, q) == s \notin 0..(Len(q["options"]) - 1)

NotStarted ==
    /\ quiz_started = FALSE
    /\ current_question = 0
    /\ score = 0
    /\ answers = <<>>
    /\ quiz_questions = <<>>

\* C1: in every reachable state the answer log has exactly current_question
\* records.
C1_LogLengthIsPosition == Len(answers) = current_question

C1_Witness ==
    /\ current_question = QuizSize
    /\ Len(answers) = QuizSize
    /\ last.op = "reload_questions"

\* C2: in every reachable state the score is the number of records of the
\* answer log whose is_correct flag is true.
C2_ScoreCountsCorrect ==
    score = Cardinality({ i \in 1..Len(answers) : answers[i]["is_correct"] })

C2_Witness ==
    /\ score >= 2
    /\ \E i \in 1..Len(answers) : ~answers[i]["is_correct"]

\* C3: a successful start_quiz(d, c) draws exactly min(5, count of matching
\* questions) questions, at most 5, each of them passing both filters, and
\* lists no question more often than the bank does.
C3_StartDraws ==
    [][\A d \in Difficulties, c \in Categories :
          (last'.outcome \in StartSuccesses /\ StartStep(d, c)) =>
              /\ Len(quiz_questions') = Min(5, get_filtered_question_count(d, c))
              /\ Len(quiz_questions') = Min(5, CountMatching(all_questions, d, c))
              /\ Len(quiz_questions') <= 5
              /\ \A q \in Range(quiz_questions') :
                    /\ q \in Range(all_questions)
                    /\ Matches(q, d, c)
                    /\ Occurrences(quiz_questions', q) <= Occurrences(all_questions, q)
      ]_vars

\* a session of 5 questions drawn from six matching entries
C3_Witness ==
    /\ last.op = "start_quiz"
    /\ last.outcome = "started"
    /\ Len(all_questions) = 6
    /\ Len(quiz_questions) = 5

\* C4: start_quiz fails for an empty bank, fails for a bank without a matching
\* question, and succeeds otherwise, with a warning when fewer than 5 match.
C4_StartOutcome ==
    [][\A d \in Difficulties, c \in Categories :
          StartStep(d, c) =>
              LET n == CountMatching(all_questions, d, c) IN
              /\ last'.outcome = "error_no_questions" <=> all_questions = <<>>
              /\ last'.outcome = "error_no_match" <=> (all_questions # <<>> /\ n = 0)
              /\ last'.outcome = "started_with_warning"
                     <=> (all_questions # <<>> /\ 0 < n /\ n < 5)
              /\ last'.outcome = "started" <=> (all_questions # <<>> /\ n >= 5)
              /\ last'.outcome \in StartSuccesses => quiz_started'
              /\ last'.outcome \in StartErrors => quiz_started' = quiz_started
      ]_vars

\* a start that succeeded although fewer than 5 questions matched
C4_Witness ==
    /\ last.op = "start_quiz"
    /\ last.outcome = "started_with_warning"
    /\ quiz_started
    /\ Len(quiz_questions) < 5

\* C5: a start_quiz that fails leaves the started flag, the drawn questions, the
\* position, the score, the answer log and both selected filters as they were.
C5_FailedStartKeepsState ==
    [][\A d \in Difficulties, c \in Categories :
          (last'.outcome \in StartErrors /\ StartStep(d, c)) =>
              UNCHANGED <<quiz_started, quiz_questions, current_question, score,
                          answers, selected_difficulty, selected_category>>
      ]_vars

\* a failed start in a session with answers on record
C5_Witness ==
    /\ last.op = "start_quiz"
    /\ last.outcome = "error_no_match"
    /\ quiz_started
    /\ Len(answers) >= 1
    /\ selected_category # "all"

\* C6: submit_answer on a complete session fails and leaves the position, the
\* score, the answer log and the drawn questions unchanged, every time.
C6_AnswerAfterCompletion ==
    [][\A s \in Selections :
          (current_question >= Len(quiz_questions) /\ SubmitStep(s)) =>
              /\ last'.outcome = "IndexError"
              /\ UNCHANGED <<current_question, score, answers, quiz_questions>>
      ]_vars

C6_Witness ==
    /\ last.op = "submit_answer"
    /\ last.outcome = "IndexError"
    /\ quiz_started
    /\ quiz_questions # <<>>
    /\ current_question = Len(quiz_questions)

\* C7 as stated: submit_answer with an index outside the options of the current
\* question fails with InvalidChoice and changes neither the score, the
\* position nor the answer log.
C7_OutOfRangeRejected ==
    [][\A s \in Selections :
          (/\ SubmitStep(s)
           /\ current_question < Len(quiz_questions)
           /\ OutOfRange(s, quiz_questions[current_question + 1])) =>
              /\ last'.outcome = "InvalidChoice"
              /\ UNCHANGED <<score, current_question, answers>>
      ]_vars

\* C7 as amended: submit_answer does not check the index against the options.
\* An index outside them is recorded like any other answer: one record with
\* that index is appended, the position advances by one, and the score goes up
\* exactly when the index equals the question's correct index.
C7_OutOfRangeAccepted ==
    [][\A s \in Selections :
          (/\ SubmitStep(s)
           /\ current_question < Len(quiz_questions)
           /\ OutOfRange(s, quiz_questions[current_question + 1])) =>
              LET q == quiz_questions[current_question + 1] IN
              /\ last'.outcome = "ok"
              /\ current_question' = current_question + 1
              /\ Len(answers') = Len(answers) + 1
              /\ SubSeq(answers', 1, Len(answers)) = answers
              /\ answers'[Len(answers')]["selected"] = s
              /\ answers'[Len(answers')]["is_correct"] = (s = q["correct"])
              /\ score' = IF s = q["correct"] THEN score + 1 ELSE score
      ]_vars

\* an answer on record whose index is outside the options of its question
C7_Witness ==
    /\ last.op = "submit_answer"
    /\ last.outcome = "ok"
    /\ current_question >= 1
    /\ OutOfRange(answers[current_question]["selected"],
                  quiz_questions[current_question])
    /\ ~answers[current_question]["is_correct"]

\* C8: reset_quiz yields the not-started state from any state, and until a
\* start succeeds the quiz stays not started and no answer is accepted.
C8_ResetToNotStarted ==
    [][/\ reset_quiz => NotStarted'
       /\ ~quiz_started => NotStarted
       /\ \A s \in Selections :
             (~quiz_started /\ SubmitStep(s)) =>
                 /\ last'.outcome = "IndexError"
                 /\ UNCHANGED session
       /\ (~quiz_started /\ quiz_started') =>
              \E d \in Difficulties, c \in Categories :
                  last'.outcome \in StartSuccesses /\ StartStep(d, c)
      ]_vars

\* a reset that abandoned a session with answers on record
C8_Witness ==
    /\ last.op = "reset_quiz"
    /\ last.prior >= 1
    /\ NotStarted

\* C9: every successful start_quiz leaves position 0, score 0 and an empty
\* answer log, whatever session it replaces.
C9_StartIsFresh ==
    [][\A d \in Difficulties, c \in Categories :
          (last'.outcome \in StartSuccesses /\ StartStep(d, c)) =>
              /\ current_question' = 0
              /\ score' = 0
              /\ answers' = <<>>
      ]_vars

\* a start that replaced a session with answers on record
C9_Witness ==
    /\ last.op = "start_quiz"
    /\ last.outcome \in StartSuccesses
    /\ last.prior >= 1
    /\ answers = <<>>

\* C10: submit_answer changes neither the selected difficulty, the selected
\* category nor the drawn questions, and the selected filters change only in a
\* successful start_quiz.
C10_FiltersFixed ==
    [][/\ \A s \in Selections :
             SubmitStep(s) =>
                 UNCHANGED <<selected_difficulty, selected_category, quiz_questions>>
       /\ (\/ selected_difficulty' # selected_difficulty
           \/ selected_category' # selected_category) =>
              \E d \in Difficulties, c \in Categories :
                  last'.outcome \in StartSuccesses /\ StartStep(d, c)
      ]_vars

\* an answered question in a session started with both filters set
C10_Witness ==
    /\ last.op = "submit_answer"
    /\ last.outcome = "ok"
    /\ selected_difficulty # "mixed"
    /\ selected_category # "all"
    /\ quiz_questions # <<>>

\* C11: the position changes only by one accepted answer at a time (or back to
\* 0 in a start or reset), so a session of n questions is complete after
\* exactly n accepted answers; and when the user keeps answering and neither
\* resets nor restarts, every started session becomes complete.
C11_CompleteAfterNAnswers ==
    /\ [][/\ current_question' # current_question =>
               \/ /\ last'.op = "submit_answer"
                  /\ last'.outcome = "ok"
                  /\ current_question < Len(quiz_questions)
                  /\ current_question' = current_question + 1
               \/ /\ last'.op \in {"start_quiz", "reset_quiz"}
                  /\ current_question' = 0
          /\ \A s \in Selections :
                (current_question < Len(quiz_questions) /\ SubmitStep(s)) =>
                    /\ last'.outcome = "ok"
                    /\ current_question' = current_question + 1
         ]_vars
    /\ (quiz_started ~> (quiz_started /\ current_question = Len(quiz_questions)))

\* a session of five questions, complete after the fifth answer
C11_Witness ==
    /\ quiz_started
    /\ Len(quiz_questions) = QuizSize
    /\ current_question = QuizSize
    /\ last.op = "submit_answer"
    /\ last.outcome = "ok"
    /\ last.prior = QuizSize - 1

\* C12: the position never leaves 0..len(quiz_questions), and a started quiz is
\* on its results page exactly when the position equals len(quiz_questions).
C12_PositionInBounds ==
    /\ 0 <= current_question
    /\ current_question <= Len(quiz_questions)
    /\ quiz_started =>
          ((current_question = Len(quiz_questions)) <=> (page = "results"))
    /\ (page = "question") => current_question < Len(quiz_questions)

\* a quiz of four questions on its results page
C12_Witness ==
    /\ quiz_started
    /\ Len(quiz_questions) = 4
    /\ current_question = Len(quiz_questions)
    /\ page = "results"

\* C13: the answer log is in question order: record i holds the text, correct
\* index and explanation of drawn question i and its difficulty and category
\* as the script reads them ("medium" and "Unknown" where the question has
\* none), and is_correct says whether the selected index is the correct one.
C13_LogInQuestionOrder ==
    /\ current_question = Len(answers)
    /\ \A i \in 1..Len(answers) :
          /\ i <= Len(quiz_questions)
          /\ answers[i].question = quiz_questions[i]["question"]
          /\ answers[i].correct = quiz_questions[i]["correct"]
          /\ answers[i].explanation = quiz_questions[i]["explanation"]
          /\ answers[i].difficulty =
                 (IF "difficulty" \in DOMAIN quiz_questions[i]
                  THEN quiz_questions[i]["difficulty"] ELSE "medium")
          /\ answers[i].category =
                 (IF "category" \in DOMAIN quiz_questions[i]
                  THEN quiz_questions[i]["category"] ELSE "Unknown")
          /\ answers[i].is_correct <=>
                 (answers[i].selected = quiz_questions[i]["correct"])

\* three answers, one right and one wrong among them, to different questions
C13_Witness ==
    /\ Len(answers) = 3
    /\ \E i, j \in 1..Len(answers) :
          /\ answers[i].is_correct
          /\ ~answers[j].is_correct
          /\ quiz_questions[i] # quiz_questions[j]

\* helper: the sum of f[k][i] over the keys of a breakdown
RECURSIVE SumOver(_, _, _)
SumOver(f, keys, i) ==
    IF keys = {} THEN 0
    ELSE LET k == CHOOSE k \in keys : TRUE
         IN f[k][i] + SumOver(f, keys \ {k}, i)

\* C14: a reload, whatever questions.json holds by then, leaves the answer log,
\* the score, the position and the drawn questions as they were, and the
\* weighted score and both breakdowns computed after it equal those before.
C14_ReloadKeepsHistory ==
    [][reload_questions =>
          /\ UNCHANGED <<answers, score, current_question, quiz_questions>>
          /\ calculate_difficulty_score(answers)' =
                 calculate_difficulty_score(answers)
          /\ category_breakdown' = category_breakdown
          /\ difficulty_breakdown' = difficulty_breakdown
      ]_vars

\* a reload in the middle of a quiz, after the file was replaced
C14_Witness ==
    /\ last.op = "reload_questions"
    /\ quiz_started
    /\ Len(answers) = 2
    /\ score = 1
    /\ read_file(source) # all_questions

\* C15: a reload re-reads questions.json: after it the bank is what the file
\* holds at that moment, even when the file changed since the last load; any
\* other step of a loaded script leaves the bank as it is.
C15_ReloadRereadsSource ==
    [][/\ reload_questions => all_questions' = read_file(source)
       /\ (questions_loaded /\ ~reload_questions) =>
              all_questions' = all_questions
      ]_vars

\* C16: a failed load (file missing, unparsable or without the questions key)
\* leaves an empty bank and a reported failure, and every later run of the
\* script still renders its page instead of raising.
C16_FailedLoadNoCrash ==
    /\ (questions_loaded /\ read_file(source) = <<>> /\ cache = << <<>> >>) =>
           all_questions = <<>>
    /\ (last.op = "initialize_questions" /\ all_questions = <<>>) =>
           last.outcome = "no_questions_loaded"
    /\ (last.op = "script_run" /\ all_questions = <<>>) =>
           last.outcome \in {"welcome", "question", "results"}

\* helper: the weight the specification gives a recorded difficulty
WeightOf(difficulty) ==
    IF lower(difficulty) = "easy" THEN 1
    ELSE IF lower(difficulty) = "hard" THEN 3
    ELSE 2

\* helper: the sum of the weights of the answers at the positions in S
RECURSIVE WeightSum(_)
WeightSum(S) ==
    IF S = {} THEN 0
    ELSE LET i == CHOOSE i \in S : TRUE
         IN WeightOf(answers[i].difficulty) + WeightSum(S \ {i})

\* C17: calculate_difficulty_score weighs an answer 1 for easy, 3 for hard and
\* 2 for medium or any other or missing difficulty, whatever the case of the
\* letters; it returns the sum over the correct answers and the sum over all
\* answers, so 0 <= earned <= possible; one correct easy answer and one
\* incorrect hard answer give <<1, 4>>.
C17_WeightedScore ==
    LET weighted == calculate_difficulty_score(answers)
        correct == {i \in 1..Len(answers) : answers[i].is_correct}
    IN /\ weighted[1] = WeightSum(correct)
       /\ weighted[2] = WeightSum(1..Len(answers))
       /\ 0 <= weighted[1]
       /\ weighted[1] <= weighted[2]
       /\ (/\ Len(answers) = 2
           /\ \E i, j \in 1..2 :
                 /\ answers[i].is_correct
                 /\ lower(answers[i].difficulty) = "easy"
                 /\ ~answers[j].is_correct
                 /\ lower(answers[j].difficulty) = "hard")
          => weighted = <<1, 4>>

\* one correct easy answer followed by one incorrect hard answer
C17_Witness ==
    /\ Len(answers) = 2
    /\ answers[1].is_correct
    /\ answers[1].difficulty = "easy"
    /\ ~answers[2].is_correct
    /\ answers[2].difficulty = "hard"
    /\ calculate_difficulty_score(answers) = <<1, 4>>

\* C18: for the loaded bank and every pair of filters,
\* get_filtered_question_count is the number of questions left by the category
\* filter and the difficulty filter applied in either order, and a started
\* quiz was drawn from that many questions.
C18_CountMatchesFilters ==
    /\ \A d \in Difficulties \cup {"Easy", "expert"} :
       \A c \in Categories \cup {"history", ""} :
          LET categoryFirst ==
                  filter_questions_by_difficulty(
                      filter_questions_by_category(all_questions, c), d)
              difficultyFirst ==
                  filter_questions_by_category(
                      filter_questions_by_difficulty(all_questions, d), c)
          IN /\ categoryFirst = difficultyFirst
             /\ get_filtered_question_count(d, c) = Len(categoryFirst)
    /\ quiz_started =>
          Len(quiz_questions) =
              Min(QuizSize, get_filtered_question_count(selected_difficulty,
                                                         selected_category))

\* a quiz drawn from the three easy History questions of a bank of five
C18_Witness ==
    /\ quiz_started
    /\ selected_difficulty = "easy"
    /\ selected_category = "History"
    /\ get_filtered_question_count("easy", "History") = 3
    /\ Len(quiz_questions) = 3
    /\ Len(all_questions) = 5

\* helper: the three keys of the difficulty breakdown
DifficultyKeys == {"easy", "medium", "hard"}

\* helper: the question has a difficulty and it is one of the three keys
Recognized(q) ==
    /\ "difficulty" \in DOMAIN q
    /\ lower(q["difficulty"]) \in DifficultyKeys

\* helper: <<correct, total>> over the answers at the positions in S
Tally(S) ==
    <<Cardinality({i \in S : answers[i].is_correct}), Cardinality(S)>>

\* C19 as the specification states it: an answer is counted under a key only
\* when its question has that difficulty; answers to questions with an absent
\* or unrecognized difficulty are counted nowhere, so the three totals sum to
\* the number of answers to questions with a recognized difficulty.
C19_AbsentDifficultyExcluded ==
    /\ DOMAIN difficulty_breakdown = DifficultyKeys
    /\ \A k \in DifficultyKeys :
          difficulty_breakdown[k] =
              Tally({i \in 1..Len(answers) :
                        /\ Recognized(quiz_questions[i])
                        /\ lower(quiz_questions[i]["difficulty"]) = k})
    /\ SumOver(difficulty_breakdown, DifficultyKeys, 2) =
          Cardinality({i \in 1..Len(answers) : Recognized(quiz_questions[i])})

\* C19: the difficulty breakdown has the three keys easy, medium and hard; an
\* answer to a question with an unrecognized difficulty is counted under none
\* of them, and an answer to a question without a difficulty is counted under
\* medium; the three totals sum to the number of answers to questions whose
\* difficulty is recognized or absent.
C19_DifficultyBreakdown ==
    /\ DOMAIN difficulty_breakdown = DifficultyKeys
    /\ difficulty_breakdown["easy"] =
          Tally({i \in 1..Len(answers) :
                    /\ Recognized(quiz_questions[i])
                    /\ lower(quiz_questions[i]["difficulty"]) = "easy"})
    /\ difficulty_breakdown["hard"] =
          Tally({i \in 1..Len(answers) :
                    /\ Recognized(quiz_questions[i])
                    /\ lower(quiz_questions[i]["difficulty"]) = "hard"})
    /\ difficulty_breakdown["medium"] =
          Tally({i \in 1..Len(answers) :
                    \/ "difficulty" \notin DOMAIN quiz_questions[i]
                    \/ /\ Recognized(quiz_questions[i])
                       /\ lower(quiz_questions[i]["difficulty"]) = "medium"})
    /\ SumOver(difficulty_breakdown, DifficultyKeys, 2) =
          Cardinality({i \in 1..Len(answers) :
                          \/ "difficulty" \notin DOMAIN quiz_questions[i]
                          \/ Recognized(quiz_questions[i])})

\* four answers: one to a question without difficulty, counted under medium,
\* and one to a question of difficulty "expert", counted nowhere
C19_Witness ==
    /\ Len(answers) = 4
    /\ \E i, j \in 1..Len(answers) :
          /\ "difficulty" \notin DOMAIN quiz_questions[i]
          /\ answers[j].difficulty = "expert"
    /\ difficulty_breakdown["medium"][2] = 1
    /\ SumOver(difficulty_breakdown, DifficultyKeys, 2) = 3

\* helper: the category the script reads off a question
CategoryOf(q) == IF "category" \in DOMAIN q THEN q["category"] ELSE "Unknown"

\* C20: the category breakdown has one entry <<correct, total>> for each
\* category among the answered questions, a question without category counting
\* under "Unknown"; the totals sum to the length of the answer log, the
\* corrects sum to the score, and 1 <= total and correct <= total in each entry.
C20_CategoryBreakdown ==
    /\ DOMAIN category_breakdown =
          {CategoryOf(quiz_questions[i]) : i \in 1..Len(answers)}
    /\ \A k \in DOMAIN category_breakdown :
          /\ category_breakdown[k] =
                Tally({i \in 1..Len(answers) : CategoryOf(quiz_questions[i]) = k})
          /\ category_breakdown[k][2] >= 1
          /\ category_breakdown[k][1] <= category_breakdown[k][2]
    /\ SumOver(category_breakdown, DOMAIN category_breakdown, 2) = Len(answers)
    /\ SumOver(category_breakdown, DOMAIN category_breakdown, 1) = score

\* three answers in three categories, the correct one to a question without
\* category
C20_Witness ==
    /\ Len(answers) = 3
    /\ Cardinality(DOMAIN category_breakdown) = 3
    /\ \E i \in 1..Len(answers) :
          /\ "category" \notin DOMAIN quiz_questions[i]
          /\ answers[i].is_correct
    /\ "Unknown" \in DOMAIN category_breakdown
    /\ category_breakdown["Unknown"] = <<1, 1>>
    /\ score = 1

\* C21: a started quiz holds between 1 and 5 drawn questions, so the results
\* page, shown only when the position equals that number, never divides the
\* score by zero.
C21_NoDivisionByZero ==
    quiz_started =>
        /\ 1 <= Len(quiz_questions)
        /\ Len(quiz_questions) <= QuizSize
        /\ (page = "results") =>
              /\ current_question = Len(quiz_questions)
              /\ script_outcome # "ZeroDivisionError"

\* the results page of a quiz of one question, answered correctly
C21_Witness ==
    /\ quiz_started
    /\ page = "results"
    /\ Len(quiz_questions) = 1
    /\ score = 1
    /\ script_outcome = "results"

\* C22: for every label c in the list of categories, the number of questions
\* that match the filters (mixed, c) is the count the category statistics show
\* for c in the picker.
C22_PickerCountIsPool ==
    \A c \in get_available_categories :
        get_filtered_question_count("mixed", c) = get(get_category_stats, c, 0)

====
